---- MODULE Spec2Model ----
(***************************************************************************)
(* Model of finality-aleph/src/network/substrate.rs: the protocol naming   *)
(* registry (ProtocolNaming), the merged event stream                      *)
(* (NetworkEventStream::next_event), and the sender                        *)
(* (SubstrateNetwork::sender, SubstrateNetworkSender::send).               *)
(*                                                                         *)
(* Option<T> is modelled as a sequence of length at most one:              *)
(* None = <<>>, Some(x) = <<x>>.  Result<T, E> is a record with a tag.     *)
(***************************************************************************)
EXTENDS Integers, Sequences, FiniteSets, TLC

VARIABLES
    naming,         \* the ProtocolNaming held by the facade and cloned into the stream
    lookup,         \* the last call of to_protocol: its argument and its result
    stream,         \* NetworkEventStream.stream: items buffered in the substream source
    stream_closed,  \* the substream source has been closed by the network service
    emitted,        \* history: items the substream source produced
    sync_stream,    \* NetworkEventStream.sync_stream: items buffered in the connectivity source
    sync_closed,    \* the connectivity source has been closed by the syncing service
    sync_emitted,   \* history: items the connectivity source produced
    pc,             \* the consumer: "idle" (no call pending) or "select" (inside next_event)
    disabled,       \* branches of the running select! whose pattern failed (resolved to None)
    taken,          \* history: items next_event consumed from stream
    sync_taken,     \* history: items next_event consumed from sync_stream
    returned,       \* history: values returned by next_event, in call order
    commands,       \* history: reservation commands issued, each with its outcome
    reserved,       \* network service: reserved peers per protocol name
    open_substreams,\* network service: the (peer, protocol name) pairs with an open substream
    sender_ret,     \* the last call of SubstrateNetwork::sender: its arguments and its result
    send_pc,        \* SubstrateNetworkSender::send: "idle" or "ready" (awaiting ready())
    sending,        \* the handle and the data of the pending send call
    send_ret,       \* the last completed send call: what it did and its result
    services,       \* what the network and the syncing service produced, and whether they closed
    subscriptions,  \* the subscriptions event_stream calls opened: source and position
    instances,      \* the stream instances event_stream calls returned, each with its call state
    session_call    \* BlocksApi::first_block_of_session: the call, its queries and its result

namingVars == <<naming, lookup>>
sourceVars == <<stream, stream_closed, emitted, sync_stream, sync_closed, sync_emitted>>
callVars == <<pc, disabled, taken, sync_taken, returned>>
netVars == <<commands, reserved>>
senderVars == <<open_substreams, sender_ret, send_pc, sending, send_ret>>
instanceVars == <<services, subscriptions, instances>>
clientVars == <<session_call>>

vars == <<namingVars, sourceVars, callVars, netVars, senderVars, instanceVars, clientVars>>

-----------------------------------------------------------------------------
(* Bounds of the model *)

\* items the substream source produces in a behaviour of Spec
MaxStreamItems == 2
\* items the connectivity source produces in a behaviour of Spec
MaxSyncItems == 2
\* entries of a batch of received messages in Spec
MaxBatch == 1
\* calls of next_event that return None
MaxNone == 2
\* items the two sources produce together in a behaviour of Spec
MaxItems == 3
\* entries of the batch of received messages in SpecMessages
MaxMessages == 3
\* tokens a chain prefix is concatenated from in SpecRegistry
MaxPrefixTokens == 2
\* items a source holds ready, and the histories keep, in SpecMerge
MaxReady == 2
\* calls of event_stream in SpecInstances
MaxInstances == 2
\* items each service produces in SpecInstances
MaxBroadcast == 2
\* items the two services produce together in SpecInstances
MaxBroadcastItems == 2

-----------------------------------------------------------------------------
(* Option *)

None == <<>>
Some(x) == <<x>>

-----------------------------------------------------------------------------
(* ProtocolNaming *)

AUTHENTICATION_PROTOCOL_NAME == "/auth/0"
LEGACY_AUTHENTICATION_PROTOCOL_NAME == "/aleph/1"
BLOCK_SYNC_PROTOCOL_NAME == "/sync/0"

Protocol == {"Authentication", "BlockSync"}

\* HashMap::new and HashMap::insert: a later insert of the same key overwrites
HashMapNew == [k \in {} |-> "Authentication"]
HashMapInsert(m, k, v) == [x \in (DOMAIN m) \cup {k} |-> IF x = k THEN v ELSE m[x]]

RECURSIVE InsertAll(_, _, _)
InsertAll(m, names, v) ==
    IF names = <<>> THEN m
    ELSE InsertAll(HashMapInsert(m, Head(names), v), Tail(names), v)

\* mutant of ProtocolNaming_new: the legacy names are registered with the chain prefix
ProtocolNaming_new_prefixed_legacy(chain_prefix) ==
    LET authentication_name == chain_prefix \o AUTHENTICATION_PROTOCOL_NAME
        m1 == HashMapInsert(HashMapNew, authentication_name, "Authentication")
        authentication_fallback_names == <<LEGACY_AUTHENTICATION_PROTOCOL_NAME>>
        m2 == HashMapInsert(m1, chain_prefix \o LEGACY_AUTHENTICATION_PROTOCOL_NAME,
                            "Authentication")
        block_sync_name == chain_prefix \o BLOCK_SYNC_PROTOCOL_NAME
        m3 == HashMapInsert(m2, block_sync_name, "BlockSync")
    IN  [authentication_name |-> authentication_name,
         authentication_fallback_names |-> authentication_fallback_names,
         block_sync_name |-> block_sync_name,
         protocols_by_name |-> m3]

\* mutant of ProtocolNaming_new: the block sync name is the chain prefix alone
ProtocolNaming_new_sync_without_suffix(chain_prefix) ==
    LET authentication_name == chain_prefix \o AUTHENTICATION_PROTOCOL_NAME
        m1 == HashMapInsert(HashMapNew, authentication_name, "Authentication")
        authentication_fallback_names == <<LEGACY_AUTHENTICATION_PROTOCOL_NAME>>
        m2 == InsertAll(m1, authentication_fallback_names, "Authentication")
        block_sync_name == chain_prefix
        m3 == HashMapInsert(m2, block_sync_name, "BlockSync")
    IN  [authentication_name |-> authentication_name,
         authentication_fallback_names |-> authentication_fallback_names,
         block_sync_name |-> block_sync_name,
         protocols_by_name |-> m3]

ProtocolNaming_new(chain_prefix) ==
    LET authentication_name == chain_prefix \o AUTHENTICATION_PROTOCOL_NAME
        m1 == HashMapInsert(HashMapNew, authentication_name, "Authentication")
        authentication_fallback_names == <<LEGACY_AUTHENTICATION_PROTOCOL_NAME>>
        m2 == InsertAll(m1, authentication_fallback_names, "Authentication")
        block_sync_name == chain_prefix \o BLOCK_SYNC_PROTOCOL_NAME
        m3 == HashMapInsert(m2, block_sync_name, "BlockSync")
    IN  [authentication_name |-> authentication_name,
         authentication_fallback_names |-> authentication_fallback_names,
         block_sync_name |-> block_sync_name,
         protocols_by_name |-> m3]

protocol_name(self, protocol) ==
    IF protocol = "Authentication" THEN self.authentication_name
    ELSE self.block_sync_name

fallback_protocol_names(self, protocol) ==
    IF protocol = "Authentication" THEN self.authentication_fallback_names
    ELSE <<>>

to_protocol(self, name) ==
    IF name \in DOMAIN self.protocols_by_name
    THEN Some(self.protocols_by_name[name])
    ELSE None

-----------------------------------------------------------------------------
(* Values carried by the two sources *)

PeerId == {"p1", "p2"}
Payload == {"b1", "b2"}

\* a wire name no registry of the model resolves
FOREIGN_PROTOCOL_NAME == "unknown/proto"

\* the names the transport may tag an item with
WireNames(n) ==
    {n.authentication_name, n.block_sync_name, FOREIGN_PROTOCOL_NAME}
        \cup {n.authentication_fallback_names[i] : i \in DOMAIN n.authentication_fallback_names}

RECURSIVE SeqsUpTo(_, _)
SeqsUpTo(S, k) ==
    IF k = 0 THEN {<<>>}
    ELSE LET shorter == SeqsUpTo(S, k - 1)
         IN  shorter \cup {Append(s, x) : s \in {t \in shorter : Len(t) = k - 1}, x \in S}

NotificationStreamOpened(remote, protocol) ==
    [type |-> "NotificationStreamOpened", remote |-> remote, protocol |-> protocol]
NotificationStreamClosed(remote, protocol) ==
    [type |-> "NotificationStreamClosed", remote |-> remote, protocol |-> protocol]
NotificationsReceived(remote, messages) ==
    [type |-> "NotificationsReceived", remote |-> remote, messages |-> messages]
Dht == [type |-> "Dht"]

SubstrateEvent(n) ==
    {NotificationStreamOpened(p, w) : p \in PeerId, w \in WireNames(n)}
        \cup {NotificationStreamClosed(p, w) : p \in PeerId, w \in WireNames(n)}
        \cup {NotificationsReceived(p, b) :
                p \in PeerId, b \in SeqsUpTo(WireNames(n) \X Payload, MaxBatch)}
        \cup {Dht}

PeerConnected(remote) == [type |-> "PeerConnected", remote |-> remote]
PeerDisconnected(remote) == [type |-> "PeerDisconnected", remote |-> remote]

SyncEvent == {PeerConnected(p) : p \in PeerId} \cup {PeerDisconnected(p) : p \in PeerId}

\* gossip::Event
StreamOpened(remote, protocol) ==
    [type |-> "StreamOpened", remote |-> remote, protocol |-> protocol]
StreamClosed(remote, protocol) ==
    [type |-> "StreamClosed", remote |-> remote, protocol |-> protocol]
Messages(remote, messages) ==
    [type |-> "Messages", remote |-> remote, messages |-> messages]

-----------------------------------------------------------------------------
(* NetworkEventStream::next_event, branch of self.stream.  The result of an *)
(* arm is Some(e) for `return Some(e)` and None for `continue`.             *)

\* mutant of filter_map: the kept entries are collected in reverse order
RECURSIVE filter_map_reversed(_, _)
filter_map_reversed(self, messages) ==
    IF messages = <<>> THEN <<>>
    ELSE LET protocol == Head(messages)[1]
             data == Head(messages)[2]
             resolved == IF protocol \in DOMAIN self.protocols_by_name
                         THEN <<self.protocols_by_name[protocol]>> ELSE <<>>
         IN  filter_map_reversed(self, Tail(messages))
                \o (IF resolved = <<>> THEN <<>> ELSE << <<resolved[1], data>> >>)

\* messages.into_iter().filter_map(|(protocol, data)| ...).collect()
RECURSIVE filter_map(_, _)
filter_map(self, messages) ==
    IF messages = <<>> THEN <<>>
    ELSE LET protocol == Head(messages)[1]
             data == Head(messages)[2]
             resolved == to_protocol(self, protocol)
         IN  (IF resolved = None THEN <<>> ELSE << <<resolved[1], data>> >>)
                \o filter_map(self, Tail(messages))

\* mutant of notification_stream_opened: an unresolved name defaults to Authentication
notification_stream_opened_default(self, remote, protocol) ==
    IF protocol \in DOMAIN self.protocols_by_name
    THEN <<StreamOpened(remote, self.protocols_by_name[protocol])>>
    ELSE <<StreamOpened(remote, "Authentication")>>

\* NotificationStreamOpened { remote, protocol, .. } => match to_protocol(..)
notification_stream_opened(self, remote, protocol) ==
    LET resolved == to_protocol(self, protocol)
    IN  IF resolved = None THEN None
        ELSE Some(StreamOpened(remote, resolved[1]))

\* NotificationStreamClosed { remote, protocol } => match to_protocol(..)
notification_stream_closed(self, remote, protocol) ==
    LET resolved == to_protocol(self, protocol)
    IN  IF resolved = None THEN None
        ELSE Some(StreamClosed(remote, resolved[1]))

\* mutant of notifications_received: a batch with no resolved entry is skipped
notifications_received_skip_empty(self, remote, messages) ==
    IF filter_map(self, messages) = <<>> THEN <<>>
    ELSE <<Messages(remote, filter_map(self, messages))>>

\* NotificationsReceived { messages, remote } => return Some(Messages(..))
notifications_received(self, remote, messages) ==
    Some(Messages(remote, filter_map(self, messages)))

\* mutant of on_stream_event: a Dht item is reported as an empty batch of messages
on_stream_event_dht_reported(self, event) ==
    CASE event.type = "NotificationStreamOpened" ->
            notification_stream_opened(self, event.remote, event.protocol)
      [] event.type = "NotificationStreamClosed" ->
            notification_stream_closed(self, event.remote, event.protocol)
      [] event.type = "NotificationsReceived" ->
            notifications_received(self, event.remote, event.messages)
      [] event.type = "Dht" -> Some(Messages("p1", <<>>))

\* the match on an item of self.stream
on_stream_event(self, event) ==
    CASE event.type = "NotificationStreamOpened" ->
            notification_stream_opened(self, event.remote, event.protocol)
      [] event.type = "NotificationStreamClosed" ->
            notification_stream_closed(self, event.remote, event.protocol)
      [] event.type = "NotificationsReceived" ->
            notifications_received(self, event.remote, event.messages)
      [] event.type = "Dht" -> None

-----------------------------------------------------------------------------
(* NetworkEventStream::next_event, branch of self.sync_stream.  An arm      *)
(* gives the commands it issues, in order; ok1 and ok2 are the network      *)
(* service's answers to the first and to the second call.                   *)

\* iter::once(MultiaddressProtocol::P2p(remote.into())).collect()
Multiaddr(remote) == <<[protocol |-> "P2p", peer_id |-> remote]>>

add_peers_to_reserved_set(protocol, peers, ok) ==
    [op |-> "add_peers_to_reserved_set", protocol |-> protocol, peers |-> peers, ok |-> ok]
remove_peers_from_reserved_set(protocol, peers, ok) ==
    [op |-> "remove_peers_from_reserved_set", protocol |-> protocol, peers |-> peers, ok |-> ok]

\* mutant of peer_connected: a failure of the first command is propagated (`?`)
peer_connected_short_circuit(self, remote, ok1, ok2) ==
    LET multiaddress == Multiaddr(remote)
        first == add_peers_to_reserved_set(self.authentication_name, {multiaddress}, ok1)
        second == add_peers_to_reserved_set(self.block_sync_name, {multiaddress}, ok2)
    IN  IF ok1 THEN <<first, second>> ELSE <<first>>

\* mutant of peer_connected: both commands name the Authentication protocol
peer_connected_same_protocol(self, remote, ok1, ok2) ==
    LET multiaddress == Multiaddr(remote)
    IN  <<add_peers_to_reserved_set(self.authentication_name, {multiaddress}, ok1),
          add_peers_to_reserved_set(self.authentication_name, {multiaddress}, ok2)>>

\* PeerConnected(remote) => { .. }
peer_connected(self, remote, ok1, ok2) ==
    LET multiaddress == Multiaddr(remote)
    IN  <<add_peers_to_reserved_set(
              protocol_name(self, "Authentication"), {multiaddress}, ok1),
          add_peers_to_reserved_set(
              protocol_name(self, "BlockSync"), {multiaddress}, ok2)>>

\* mutant of peer_disconnected: a failure of the first command is propagated (`?`)
peer_disconnected_short_circuit(self, remote, ok1, ok2) ==
    LET addresses == <<remote>>
        first == remove_peers_from_reserved_set(self.authentication_name, addresses, ok1)
        second == remove_peers_from_reserved_set(self.block_sync_name, addresses, ok2)
    IN  IF ok1 THEN <<first, second>> ELSE <<first>>

\* PeerDisconnected(remote) => { .. }
peer_disconnected(self, remote, ok1, ok2) ==
    LET addresses == <<remote>>
    IN  <<remove_peers_from_reserved_set(
              protocol_name(self, "Authentication"), addresses, ok1),
          remove_peers_from_reserved_set(
              protocol_name(self, "BlockSync"), addresses, ok2)>>

\* the match on an item of self.sync_stream
on_sync_event(self, event, ok1, ok2) ==
    CASE event.type = "PeerConnected" -> peer_connected(self, event.remote, ok1, ok2)
      [] event.type = "PeerDisconnected" -> peer_disconnected(self, event.remote, ok1, ok2)

-----------------------------------------------------------------------------
(* The network service's reserved sets: a command that fails changes nothing *)

PeersOf(cmd) ==
    IF cmd.op = "add_peers_to_reserved_set"
    THEN {a[1].peer_id : a \in cmd.peers}
    ELSE {cmd.peers[i] : i \in DOMAIN cmd.peers}

ApplyCommand(sets, cmd) ==
    IF ~cmd.ok \/ cmd.protocol \notin DOMAIN sets THEN sets
    ELSE IF cmd.op = "add_peers_to_reserved_set"
         THEN [sets EXCEPT ![cmd.protocol] = @ \cup PeersOf(cmd)]
         ELSE [sets EXCEPT ![cmd.protocol] = @ \ PeersOf(cmd)]

RECURSIVE ApplyCommands(_, _)
ApplyCommands(sets, cmds) ==
    IF cmds = <<>> THEN sets
    ELSE ApplyCommands(ApplyCommand(sets, Head(cmds)), Tail(cmds))

-----------------------------------------------------------------------------
(* SenderError, SubstrateNetwork::sender, SubstrateNetworkSender::send *)

Ok(value) == [tag |-> "Ok", value |-> value]
Err(error) == [tag |-> "Err", error |-> error]

CannotCreateSender(peer_id, protocol) ==
    [kind |-> "CannotCreateSender", peer_id |-> peer_id, protocol |-> protocol]
LostConnectionToPeer(peer_id) ==
    [kind |-> "LostConnectionToPeer", peer_id |-> peer_id]
LostConnectionToPeerReady(peer_id) ==
    [kind |-> "LostConnectionToPeerReady", peer_id |-> peer_id]

\* NetworkService::notification_sender: a capability for the open substream of
\* the peer under that protocol name, an error when there is none
notification_sender(open, peer_id, protocol) ==
    IF <<peer_id, protocol>> \in open
    THEN Ok([peer_id |-> peer_id, protocol |-> protocol])
    ELSE Err([kind |-> "NotificationSenderError"])

\* mutant of sender: the capability is always asked under the Authentication name
sender_authentication_name(self, open, peer_id, protocol) ==
    LET opened == notification_sender(open, peer_id, self.authentication_name)
    IN  IF opened.tag = "Err"
        THEN Err(CannotCreateSender(peer_id, protocol))
        ELSE Ok([notification_sender |-> opened.value, peer_id |-> peer_id])

\* mutant of sender: when the canonical name gives no capability, the
\* fallback names of the protocol are tried
sender_with_fallback(self, open, peer_id, protocol) ==
    LET opened == notification_sender(open, peer_id, protocol_name(self, protocol))
        names == fallback_protocol_names(self, protocol)
        found == {i \in DOMAIN names : notification_sender(open, peer_id, names[i]).tag = "Ok"}
    IN  IF opened.tag = "Ok"
        THEN Ok([notification_sender |-> opened.value, peer_id |-> peer_id])
        ELSE IF found # {}
        THEN Ok([notification_sender |->
                    notification_sender(open, peer_id, names[CHOOSE i \in found : TRUE]).value,
                 peer_id |-> peer_id])
        ELSE Err(CannotCreateSender(peer_id, protocol))

\* SubstrateNetwork::sender
sender(self, open, peer_id, protocol) ==
    LET opened == notification_sender(open, peer_id, protocol_name(self, protocol))
    IN  IF opened.tag = "Err"
        THEN Err(CannotCreateSender(peer_id, protocol))      \* .map_err(..)?
        ELSE Ok([notification_sender |-> opened.value, peer_id |-> peer_id])

\* mutant of send: a failed readiness wait is not propagated, the push is made anyway
send_without_question_mark(self, data, ready_ok, push_ok) ==
    [ops |-> <<"ready", "send">>,
     result |-> IF ready_ok /\ push_ok THEN Ok(data)
                ELSE Err(LostConnectionToPeerReady(self.peer_id))]

\* SubstrateNetworkSender::send: ready().await.map_err(..)?.send(data).map_err(..);
\* ready_ok and push_ok are the channel's answers; ops are the calls made on it
send(self, data, ready_ok, push_ok) ==
    IF ~ready_ok
    THEN [ops |-> <<"ready">>,
          result |-> Err(LostConnectionToPeer(self.peer_id))]
    ELSE [ops |-> <<"ready", "send">>,
          result |-> IF push_ok THEN Ok(data)
                     ELSE Err(LostConnectionToPeerReady(self.peer_id))]

-----------------------------------------------------------------------------
(* aleph-client, BlocksApi::first_block_of_session.  SessionIndex and        *)
(* BlockNumber are u32 and get_session_period answers a u32.  A u32 is      *)
(* modelled with its full width, as its four bytes, least significant       *)
(* first; the exact product of two u32 has eight bytes.                     *)

Byte == 256

\* the u32 whose upper 16 bits are hi and whose lower 16 bits are lo
U32(hi, lo) == <<lo % Byte, lo \div Byte, hi % Byte, hi \div Byte>>

\* byte i of a, 0 beyond its length
ByteAt(a, i) == IF i \in DOMAIN a THEN a[i] ELSE 0

\* column k of the schoolbook product: the sum of a[i] * b[j] with i + j = k + 1
RECURSIVE Column(_, _, _, _)
Column(a, b, k, i) ==
    IF i > k THEN 0
    ELSE ByteAt(a, i) * ByteAt(b, k + 1 - i) + Column(a, b, k, i + 1)

\* the bytes of a * b from byte k on, given the carry into byte k
RECURSIVE ProductFrom(_, _, _, _)
ProductFrom(a, b, k, carry) ==
    IF k > Len(a) + Len(b) THEN <<>>
    ELSE LET sum == Column(a, b, k, 1) + carry
         IN  <<sum % Byte>> \o ProductFrom(a, b, k + 1, sum \div Byte)

\* the exact product of two u32, eight bytes
Product(a, b) == ProductFrom(a, b, 1, 0)

\* a u32 as an eight-byte number
Widen(a) == a \o <<0, 0, 0, 0>>

\* u32::checked_mul: None when the product does not fit in 32 bits
checked_mul(a, b) ==
    IF Product(a, b) = Widen(SubSeq(Product(a, b), 1, 4))
    THEN Some(SubSeq(Product(a, b), 1, 4))
    ELSE None

\* u32::wrapping_mul: the product modulo 2^32
wrapping_mul(a, b) == SubSeq(Product(a, b), 1, 4)

\* period * session on u32: with overflow checks (debug builds) an overflow
\* panics, without them (release builds) the product wraps
Mul(overflow_checks, a, b) ==
    IF checked_mul(a, b) # None THEN [panic |-> FALSE, value |-> checked_mul(a, b)[1]]
    ELSE IF overflow_checks THEN [panic |-> TRUE, value |-> wrapping_mul(a, b)]
    ELSE [panic |-> FALSE, value |-> wrapping_mul(a, b)]

\* the session periods the chain may answer and the sessions asked for
SessionPeriod == {U32(0, 0), U32(0, 1), U32(0, 900), U32(1, 0), U32(65535, 65535)}
SessionIndex ==
    {U32(0, 0), U32(0, 1), U32(0, 2), U32(0, 65535), U32(1, 0), U32(72, 53594),
     U32(65535, 65535)}

BlockHash == {"h1", "h2"}
RpcError == [kind |-> "RpcError"]

\* no call of first_block_of_session was made; the build has or has not
\* overflow checks
NoSessionCall(overflow_checks) ==
    [overflow_checks |-> overflow_checks, pc |-> "idle", session |-> None,
     period |-> None, block_hash_queries |-> <<>>, result |-> None]

\* first_block_of_session(session) is called and awaits get_session_period()
FirstBlockOfSession ==
    /\ session_call.pc \in {"idle", "done"}
    /\ \E session \in SessionIndex :
         session_call' = [NoSessionCall(session_call.overflow_checks) EXCEPT
                            !.pc = "period", !.session = Some(session)]
    /\ UNCHANGED <<namingVars, sourceVars, callVars, netVars, senderVars, instanceVars>>

\* let period = self.get_session_period().await?; let block_num = period * session;
\* self.get_block_hash(block_num) is called and awaited
GetSessionPeriodReturns ==
    /\ session_call.pc = "period"
    /\ \/ session_call' = [session_call EXCEPT !.pc = "done", !.result = Some(Err(RpcError))]
       \/ \E period \in SessionPeriod :
            LET block_num == Mul(session_call.overflow_checks, period, session_call.session[1])
            IN  IF block_num.panic
                THEN session_call' = [session_call EXCEPT
                                        !.pc = "panicked", !.period = Some(period)]
                ELSE session_call' = [session_call EXCEPT
                                        !.pc = "hash", !.period = Some(period),
                                        !.block_hash_queries = Append(@, block_num.value)]
    /\ UNCHANGED <<namingVars, sourceVars, callVars, netVars, senderVars, instanceVars>>

\* get_block_hash answers and first_block_of_session returns the answer
GetBlockHashReturns ==
    /\ session_call.pc = "hash"
    /\ \E answer \in {Err(RpcError), Ok(None)} \cup {Ok(Some(h)) : h \in BlockHash} :
         session_call' = [session_call EXCEPT !.pc = "done", !.result = Some(answer)]
    /\ UNCHANGED <<namingVars, sourceVars, callVars, netVars, senderVars, instanceVars>>

-----------------------------------------------------------------------------
(* Initial state: a facade with its registry, one fresh stream instance *)

ChainPrefix == {"chain_"}

InitNaming(prefixes) ==
    /\ naming \in {ProtocolNaming_new(chain_prefix) : chain_prefix \in prefixes}
    /\ lookup = None

\* the two sources hold the given items, no call of next_event was made yet
InitStream(items, sync_items, closed) ==
    /\ stream = items
    /\ stream_closed = closed
    /\ emitted = items
    /\ sync_stream = sync_items
    /\ sync_closed = closed
    /\ sync_emitted = sync_items
    /\ pc = "idle"
    /\ disabled = {}
    /\ taken = <<>>
    /\ sync_taken = <<>>
    /\ returned = <<>>
    /\ commands = <<>>
    /\ reserved = [w \in WireNames(naming) |-> {}]

InitSender ==
    /\ open_substreams = {}
    /\ sender_ret = None
    /\ send_pc = "idle"
    /\ sending = None
    /\ send_ret = None

\* no stream instance beyond the one of the variables above was created
InitInstances ==
    /\ services = [network |-> [emitted |-> <<>>, closed |-> FALSE],
                   sync |-> [emitted |-> <<>>, closed |-> FALSE]]
    /\ subscriptions = <<>>
    /\ instances = <<>>

InitClient == session_call = NoSessionCall(FALSE)

Init ==
    /\ InitNaming(ChainPrefix)
    /\ InitStream(<<>>, <<>>, FALSE)
    /\ InitSender
    /\ InitInstances
    /\ InitClient

-----------------------------------------------------------------------------
(* The two sources, driven by the network and the syncing service *)

EmittedItems == Len(emitted) + Len(sync_emitted)

EmitStream ==
    /\ ~stream_closed
    /\ Len(emitted) < MaxStreamItems
    /\ EmittedItems < MaxItems
    /\ \E event \in SubstrateEvent(naming) :
         /\ stream' = Append(stream, event)
         /\ emitted' = Append(emitted, event)
    /\ UNCHANGED <<namingVars, instanceVars, clientVars, stream_closed, sync_stream, sync_closed, sync_emitted,
                   callVars, netVars, senderVars>>

CloseStream ==
    /\ ~stream_closed
    /\ stream_closed' = TRUE
    /\ UNCHANGED <<namingVars, instanceVars, clientVars, stream, emitted, sync_stream, sync_closed, sync_emitted,
                   callVars, netVars, senderVars>>

EmitSync ==
    /\ ~sync_closed
    /\ Len(sync_emitted) < MaxSyncItems
    /\ EmittedItems < MaxItems
    /\ \E event \in SyncEvent :
         /\ sync_stream' = Append(sync_stream, event)
         /\ sync_emitted' = Append(sync_emitted, event)
    /\ UNCHANGED <<namingVars, instanceVars, clientVars, stream, stream_closed, emitted, sync_closed,
                   callVars, netVars, senderVars>>

CloseSync ==
    /\ ~sync_closed
    /\ sync_closed' = TRUE
    /\ UNCHANGED <<namingVars, instanceVars, clientVars, stream, stream_closed, emitted, sync_stream, sync_emitted,
                   callVars, netVars, senderVars>>

-----------------------------------------------------------------------------
(* NetworkEventStream::next_event *)

NoneCount(rets) == Cardinality({i \in DOMAIN rets : rets[i] = None})

\* the consumer calls next_event: the loop is entered and a select! starts
CallNextEvent ==
    /\ pc = "idle"
    /\ NoneCount(returned) < MaxNone
    /\ pc' = "select"
    /\ disabled' = {}
    /\ UNCHANGED <<namingVars, instanceVars, clientVars, sourceVars, taken, sync_taken, returned, netVars, senderVars>>

\* mutant of PollStream: the most recent item of the source is taken first
PollStream_newest_first ==
    /\ pc = "select"
    /\ "stream" \notin disabled
    /\ stream # <<>>
    /\ LET event == stream[Len(stream)]
           result == on_stream_event(naming, event)
       IN  /\ stream' = SubSeq(stream, 1, Len(stream) - 1)
           /\ taken' = Append(taken, event)
           /\ IF result = None
              THEN /\ pc' = "select"
                   /\ returned' = returned
              ELSE /\ pc' = "idle"
                   /\ returned' = Append(returned, result)
           /\ disabled' = {}
    /\ UNCHANGED <<namingVars, instanceVars, clientVars, stream_closed, emitted, sync_stream, sync_closed,
                   sync_emitted, sync_taken, netVars, senderVars>>

\* Some(event) = self.stream.next(): an item is ready, its arm runs
PollStream ==
    /\ pc = "select"
    /\ "stream" \notin disabled
    /\ stream # <<>>
    /\ LET event == Head(stream)
           result == on_stream_event(naming, event)
       IN  /\ stream' = Tail(stream)
           /\ taken' = Append(taken, event)
           /\ IF result = None
              THEN /\ pc' = "select"           \* continue: next iteration, a new select!
                   /\ returned' = returned
              ELSE /\ pc' = "idle"             \* return Some(..)
                   /\ returned' = Append(returned, result)
           /\ disabled' = {}
    /\ UNCHANGED <<namingVars, instanceVars, clientVars, stream_closed, emitted, sync_stream, sync_closed,
                   sync_emitted, sync_taken, netVars, senderVars>>

\* mutant of StreamExhausted: a source that merely has no item ready (Pending)
\* is taken for an exhausted one
StreamExhausted_when_pending ==
    /\ pc = "select"
    /\ "stream" \notin disabled
    /\ stream = <<>>
    /\ disabled' = disabled \cup {"stream"}
    /\ UNCHANGED <<namingVars, instanceVars, clientVars, sourceVars, pc, taken, sync_taken, returned, netVars, senderVars>>

\* self.stream.next() resolved to None: the pattern fails, the branch is disabled
StreamExhausted ==
    /\ pc = "select"
    /\ "stream" \notin disabled
    /\ stream = <<>>
    /\ stream_closed
    /\ disabled' = disabled \cup {"stream"}
    /\ UNCHANGED <<namingVars, instanceVars, clientVars, sourceVars, pc, taken, sync_taken, returned, netVars, senderVars>>

\* mutant of PollSync: the branches are polled in order (`biased;`), the
\* connectivity branch only when the substream branch has no item ready
PollSync_after_stream ==
    /\ pc = "select"
    /\ "sync_stream" \notin disabled
    /\ sync_stream # <<>>
    /\ stream = <<>>
    /\ \E ok1 \in BOOLEAN, ok2 \in BOOLEAN :
         LET event == Head(sync_stream)
             issued == on_sync_event(naming, event, ok1, ok2)
         IN  /\ sync_stream' = Tail(sync_stream)
             /\ sync_taken' = Append(sync_taken, event)
             /\ commands' = commands \o issued
             /\ reserved' = ApplyCommands(reserved, issued)
    /\ pc' = "select"
    /\ disabled' = {}
    /\ UNCHANGED <<namingVars, instanceVars, clientVars, stream, stream_closed, emitted, sync_closed, sync_emitted,
                   taken, returned, senderVars>>

\* Some(event) = self.sync_stream.next(): an item is ready, its arm runs
PollSync ==
    /\ pc = "select"
    /\ "sync_stream" \notin disabled
    /\ sync_stream # <<>>
    /\ \E ok1 \in BOOLEAN, ok2 \in BOOLEAN :
         LET event == Head(sync_stream)
             issued == on_sync_event(naming, event, ok1, ok2)
         IN  /\ sync_stream' = Tail(sync_stream)
             /\ sync_taken' = Append(sync_taken, event)
             /\ commands' = commands \o issued
             /\ reserved' = ApplyCommands(reserved, issued)
    /\ pc' = "select"                          \* continue
    /\ disabled' = {}
    /\ UNCHANGED <<namingVars, instanceVars, clientVars, stream, stream_closed, emitted, sync_closed, sync_emitted,
                   taken, returned, senderVars>>

\* self.sync_stream.next() resolved to None: the pattern fails, the branch is disabled
SyncExhausted ==
    /\ pc = "select"
    /\ "sync_stream" \notin disabled
    /\ sync_stream = <<>>
    /\ sync_closed
    /\ disabled' = disabled \cup {"sync_stream"}
    /\ UNCHANGED <<namingVars, instanceVars, clientVars, sourceVars, pc, taken, sync_taken, returned, netVars, senderVars>>

\* the branches of the select! that must be disabled for `else` to run
SelectBranches == {"stream", "sync_stream"}

\* mutant of SelectElse: None is returned as soon as one source is exhausted
SelectElse_any_exhausted ==
    /\ pc = "select"
    /\ disabled # {}
    /\ returned' = Append(returned, None)
    /\ pc' = "idle"
    /\ disabled' = {}
    /\ UNCHANGED <<namingVars, instanceVars, clientVars, sourceVars, taken, sync_taken, netVars, senderVars>>

\* else => return None: every branch of the select! is disabled
SelectElse ==
    /\ pc = "select"
    /\ disabled = SelectBranches
    /\ returned' = Append(returned, None)
    /\ pc' = "idle"
    /\ disabled' = {}
    /\ UNCHANGED <<namingVars, instanceVars, clientVars, sourceVars, taken, sync_taken, netVars, senderVars>>

Next ==
    \/ EmitStream
    \/ CloseStream
    \/ EmitSync
    \/ CloseSync
    \/ CallNextEvent
    \/ PollStream
    \/ StreamExhausted
    \/ PollSync
    \/ SyncExhausted
    \/ SelectElse

Spec == Init /\ [][Next]_vars

-----------------------------------------------------------------------------
(* The stream over sources that were closed after buffering their items:    *)
(* one batch of received messages and one connectivity signal               *)

MessageBatches == SeqsUpTo(WireNames(naming) \X Payload, MaxMessages)

InitMessages ==
    /\ InitNaming(ChainPrefix)
    /\ \E p \in PeerId, messages \in MessageBatches, signal \in SyncEvent :
         InitStream(<<NotificationsReceived(p, messages)>>, <<signal>>, TRUE)
    /\ InitSender
    /\ InitInstances
    /\ InitClient

NextConsume ==
    \/ CallNextEvent
    \/ PollStream
    \/ StreamExhausted
    \/ PollSync
    \/ SyncExhausted
    \/ SelectElse

SpecMessages == InitMessages /\ [][NextConsume]_vars

-----------------------------------------------------------------------------
(* The sender: substreams open and close, senders are created and used *)

\* the names the network service opens substreams under: those of this layer
SubstreamNames(n) == WireNames(n) \ {FOREIGN_PROTOCOL_NAME}

OpenSubstream ==
    /\ \E p \in PeerId, w \in SubstreamNames(naming) :
         /\ <<p, w>> \notin open_substreams
         /\ open_substreams' = open_substreams \cup {<<p, w>>}
    /\ UNCHANGED <<namingVars, instanceVars, clientVars, sourceVars, callVars, netVars,
                   sender_ret, send_pc, sending, send_ret>>

CloseSubstream ==
    /\ \E s \in open_substreams : open_substreams' = open_substreams \ {s}
    /\ UNCHANGED <<namingVars, instanceVars, clientVars, sourceVars, callVars, netVars,
                   sender_ret, send_pc, sending, send_ret>>

\* SubstrateNetwork::sender(peer_id, protocol): one step, the call has no await
Sender ==
    /\ \E peer_id \in PeerId, protocol \in Protocol :
         sender_ret' = Some([peer_id |-> peer_id, protocol |-> protocol,
                             result |-> sender(naming, open_substreams, peer_id, protocol)])
    /\ UNCHANGED <<namingVars, instanceVars, clientVars, sourceVars, callVars, netVars,
                   open_substreams, send_pc, sending, send_ret>>

\* send(data) is called on the handle the last sender call returned, and
\* suspends in ready().await
SendCall ==
    /\ send_pc = "idle"
    /\ sender_ret # None
    /\ sender_ret[1].result.tag = "Ok"
    /\ \E data \in Payload :
         sending' = Some([handle |-> sender_ret[1].result.value, data |-> data])
    /\ send_pc' = "ready"
    /\ UNCHANGED <<namingVars, instanceVars, clientVars, sourceVars, callVars, netVars,
                   open_substreams, sender_ret, send_ret>>

\* ready() resolves: with an error once the substream is closed, with a ready
\* channel otherwise; the push happens in the same step and may still fail
SendResume ==
    /\ send_pc = "ready"
    /\ LET handle == sending[1].handle
           ready_ok == <<handle.notification_sender.peer_id,
                         handle.notification_sender.protocol>> \in open_substreams
       IN  \E push_ok \in BOOLEAN :
             LET done == send(handle, sending[1].data, ready_ok, push_ok)
             IN  send_ret' = Some([handle |-> handle, data |-> sending[1].data,
                                   ready_ok |-> ready_ok, push_ok |-> push_ok,
                                   ops |-> done.ops, result |-> done.result])
    /\ send_pc' = "idle"
    /\ sending' = None
    /\ UNCHANGED <<namingVars, instanceVars, clientVars, sourceVars, callVars, netVars,
                   open_substreams, sender_ret>>

\* a state of the stream the sender runs beside: the signal that p1 connected
\* was handled and p1 is reserved for both protocols, an open of p1 is buffered,
\* a call of next_event is pending
BesideStream ==
    /\ stream = <<NotificationStreamOpened("p1", protocol_name(naming, "Authentication"))>>
    /\ stream_closed = FALSE
    /\ emitted = stream
    /\ sync_stream = <<>>
    /\ sync_closed = FALSE
    /\ sync_emitted = <<PeerConnected("p1")>>
    /\ pc = "select"
    /\ disabled = {}
    /\ taken = <<>>
    /\ sync_taken = sync_emitted
    /\ returned = <<>>
    /\ commands = peer_connected(naming, "p1", TRUE, TRUE)
    /\ reserved = ApplyCommands([w \in WireNames(naming) |-> {}], commands)

InitBesideStream ==
    /\ InitNaming(ChainPrefix)
    /\ BesideStream
    /\ InitSender
    /\ InitInstances
    /\ InitClient

NextSender ==
    \/ OpenSubstream
    \/ CloseSubstream
    \/ Sender
    \/ SendCall
    \/ SendResume

SpecSender == InitBesideStream /\ [][NextSender]_vars

-----------------------------------------------------------------------------
(* The registry for every chain prefix built of a few tokens, and lookups   *)
(* of the names any of these registries knows                               *)

ChainPrefixToken == {"chain_", "/", "/auth/0", "/aleph/1", "/sync/0"}

RECURSIVE ChainPrefixes(_)
ChainPrefixes(k) ==
    IF k = 0 THEN {""}
    ELSE LET shorter == ChainPrefixes(k - 1)
         IN  shorter \cup {prefix \o token : prefix \in shorter, token \in ChainPrefixToken}

LookupNames ==
    UNION {WireNames(ProtocolNaming_new(chain_prefix)) :
             chain_prefix \in ChainPrefixes(MaxPrefixTokens)}
        \cup ChainPrefixes(MaxPrefixTokens)

InitRegistry ==
    /\ InitNaming(ChainPrefixes(MaxPrefixTokens))
    /\ InitStream(<<>>, <<>>, FALSE)
    /\ InitSender
    /\ InitInstances
    /\ InitClient

\* ProtocolNaming::to_protocol(protocol_name) is called
ToProtocol ==
    /\ \E name \in LookupNames :
         lookup' = Some([name |-> name, result |-> to_protocol(naming, name)])
    /\ UNCHANGED <<naming, instanceVars, clientVars, sourceVars, callVars, netVars, senderVars>>

NextRegistry == ToProtocol

SpecRegistry == InitRegistry /\ [][NextRegistry]_vars

-----------------------------------------------------------------------------
(* The merge under sources that never run dry.  The histories are cut back  *)
(* to what is still buffered whenever the observer forgets the past, so the *)
(* sources can go on producing within the bounds for ever.                  *)

Forget ==
    /\ \/ emitted # stream
       \/ sync_emitted # sync_stream
       \/ returned # <<>>
       \/ commands # <<>>
    /\ emitted' = stream
    /\ sync_emitted' = sync_stream
    /\ taken' = <<>>
    /\ sync_taken' = <<>>
    /\ returned' = <<>>
    /\ commands' = <<>>
    /\ UNCHANGED <<namingVars, instanceVars, clientVars, stream, stream_closed, sync_stream, sync_closed,
                   pc, disabled, reserved, senderVars>>

\* the items the sources produce here: one that makes next_event go on
\* polling and one that makes it return, and the two signals of one peer
MergeStreamItems ==
    {Dht, NotificationStreamOpened("p1", protocol_name(naming, "Authentication"))}
MergeSyncItems == {PeerConnected("p1"), PeerDisconnected("p1")}

\* the substream source makes another item ready behind those it holds
ReadyStream ==
    /\ ~stream_closed
    /\ Len(stream) < MaxReady
    /\ Len(emitted) < MaxReady
    /\ \E event \in MergeStreamItems :
         /\ stream' = Append(stream, event)
         /\ emitted' = Append(emitted, event)
    /\ UNCHANGED <<namingVars, instanceVars, clientVars, stream_closed, sync_stream, sync_closed, sync_emitted,
                   callVars, netVars, senderVars>>

\* the connectivity source makes another item ready behind those it holds
ReadySync ==
    /\ ~sync_closed
    /\ Len(sync_stream) < MaxReady
    /\ Len(sync_emitted) < MaxReady
    /\ \E event \in MergeSyncItems :
         /\ sync_stream' = Append(sync_stream, event)
         /\ sync_emitted' = Append(sync_emitted, event)
    /\ UNCHANGED <<namingVars, instanceVars, clientVars, stream, stream_closed, emitted, sync_closed,
                   callVars, netVars, senderVars>>

NextMerge ==
    \/ ReadyStream
    \/ ReadySync
    \/ CallNextEvent
    \/ PollStream
    \/ PollSync
    \/ Forget

\* the consumer keeps calling next_event; select! polls its branches in a
\* random order, so a branch that is ready again and again is taken
SpecMerge ==
    /\ Init
    /\ [][NextMerge]_vars
    /\ WF_vars(CallNextEvent)
    /\ SF_vars(PollStream)
    /\ SF_vars(PollSync)

-----------------------------------------------------------------------------
(* The client asking for the first block of sessions, in a build with and   *)
(* in a build without overflow checks                                       *)

InitSession ==
    /\ InitNaming(ChainPrefix)
    /\ InitStream(<<>>, <<>>, FALSE)
    /\ InitSender
    /\ InitInstances
    /\ \E overflow_checks \in BOOLEAN : session_call = NoSessionCall(overflow_checks)

NextSession ==
    \/ FirstBlockOfSession
    \/ GetSessionPeriodReturns
    \/ GetBlockHashReturns

SpecSession == InitSession /\ [][NextSession]_vars

-----------------------------------------------------------------------------
(* The stream whose pending calls the consumer may drop.  The only await of *)
(* next_event is the select!, so that is where a dropped call stops.        *)

\* mutant of Cancel: the call is dropped inside the arm of a signal, after
\* the first of its two commands
Cancel_between_commands ==
    /\ pc = "select"
    /\ sync_stream # <<>>
    /\ \E ok1 \in BOOLEAN, ok2 \in BOOLEAN :
         LET event == Head(sync_stream)
             issued == SubSeq(on_sync_event(naming, event, ok1, ok2), 1, 1)
         IN  /\ sync_stream' = Tail(sync_stream)
             /\ sync_taken' = Append(sync_taken, event)
             /\ commands' = commands \o issued
             /\ reserved' = ApplyCommands(reserved, issued)
    /\ pc' = "idle"
    /\ disabled' = {}
    /\ UNCHANGED <<namingVars, instanceVars, clientVars, stream, stream_closed, emitted,
                   sync_closed, sync_emitted, taken, returned, senderVars>>

\* the future of a pending next_event call is dropped at the select!
Cancel ==
    /\ pc = "select"
    /\ pc' = "idle"
    /\ disabled' = {}
    /\ UNCHANGED <<namingVars, instanceVars, clientVars, sourceVars, taken, sync_taken,
                   returned, netVars, senderVars>>

NextCancel ==
    \/ Next
    \/ Cancel

SpecCancel == Init /\ [][NextCancel]_vars

-----------------------------------------------------------------------------
(* Several stream instances of one facade.  A service keeps what it         *)
(* produced; a subscription is a position in it, and the items after the    *)
(* position are those the subscription still holds.  The instances share    *)
(* the network service, hence the reservation commands and reserved sets.   *)

\* the items a subscription holds, and whether it will yield no more
Pending(sub) ==
    SubSeq(services[sub.source].emitted, sub.pos + 1, Len(services[sub.source].emitted))
Ended(sub) == Pending(sub) = <<>> /\ services[sub.source].closed

ProducedItems == Len(services.network.emitted) + Len(services.sync.emitted)

\* the network service produces an item: every subscription to it holds it
NetworkProduces ==
    /\ ~services.network.closed
    /\ Len(services.network.emitted) < MaxBroadcast
    /\ ProducedItems < MaxBroadcastItems
    /\ \E event \in MergeStreamItems :
         services' = [services EXCEPT !.network.emitted = Append(@, event)]
    /\ UNCHANGED <<namingVars, sourceVars, callVars, netVars, senderVars,
                   subscriptions, instances, clientVars>>

\* the syncing service produces a signal: every subscription to it holds it
SyncProduces ==
    /\ ~services.sync.closed
    /\ Len(services.sync.emitted) < MaxBroadcast
    /\ ProducedItems < MaxBroadcastItems
    /\ \E event \in MergeSyncItems :
         services' = [services EXCEPT !.sync.emitted = Append(@, event)]
    /\ UNCHANGED <<namingVars, sourceVars, callVars, netVars, senderVars,
                   subscriptions, instances, clientVars>>

\* a service shuts down: its subscriptions end once they are drained
ServiceCloses ==
    /\ \E source \in {"network", "sync"} :
         /\ ~services[source].closed
         /\ services' = [services EXCEPT ![source].closed = TRUE]
    /\ UNCHANGED <<namingVars, sourceVars, callVars, netVars, senderVars,
                   subscriptions, instances, clientVars>>

\* a new instance over the given subscriptions, with a clone of the registry
NetworkEventStream(stream_sub, sync_sub) ==
    [stream |-> stream_sub, sync_stream |-> sync_sub, naming |-> naming,
     since |-> [network |-> Len(services.network.emitted),
                sync |-> Len(services.sync.emitted)],
     pc |-> "idle", disabled |-> {}, taken |-> <<>>, sync_taken |-> <<>>,
     returned |-> <<>>]

\* mutant of EventStream: a further instance is given the subscriptions of
\* the first one instead of its own
EventStream_shared_subscriptions ==
    /\ Len(instances) < MaxInstances
    /\ IF instances = <<>>
       THEN /\ subscriptions' = subscriptions \o
                  <<[source |-> "network", pos |-> Len(services.network.emitted)],
                    [source |-> "sync", pos |-> Len(services.sync.emitted)]>>
            /\ instances' = Append(instances,
                  NetworkEventStream(Len(subscriptions) + 1, Len(subscriptions) + 2))
       ELSE /\ subscriptions' = subscriptions
            /\ instances' = Append(instances,
                  NetworkEventStream(instances[1].stream, instances[1].sync_stream))
    /\ UNCHANGED <<namingVars, sourceVars, callVars, netVars, senderVars,
                   services, clientVars>>

\* SubstrateNetwork::event_stream: a subscription to each service is opened
\* and a new instance over the two is returned
EventStream ==
    /\ Len(instances) < MaxInstances
    /\ subscriptions' = subscriptions \o
          <<[source |-> "network", pos |-> Len(services.network.emitted)],
            [source |-> "sync", pos |-> Len(services.sync.emitted)]>>
    /\ instances' = Append(instances,
          NetworkEventStream(Len(subscriptions) + 1, Len(subscriptions) + 2))
    /\ UNCHANGED <<namingVars, sourceVars, callVars, netVars, senderVars,
                   services, clientVars>>

\* next_event is called on an instance
CallNextEventOn ==
    /\ \E i \in DOMAIN instances :
         /\ instances[i].pc = "idle"
         /\ NoneCount(instances[i].returned) < MaxNone
         /\ instances' = [instances EXCEPT ![i].pc = "select", ![i].disabled = {}]
    /\ UNCHANGED <<namingVars, sourceVars, callVars, netVars, senderVars,
                   services, subscriptions, clientVars>>

\* Some(event) = self.stream.next() on an instance
PollStreamOn ==
    /\ \E i \in DOMAIN instances :
         LET self == instances[i]
             items == Pending(subscriptions[self.stream])
         IN  /\ self.pc = "select"
             /\ "stream" \notin self.disabled
             /\ items # <<>>
             /\ LET event == Head(items)
                    result == on_stream_event(self.naming, event)
                IN  /\ subscriptions' = [subscriptions EXCEPT ![self.stream].pos = @ + 1]
                    /\ instances' = [instances EXCEPT
                          ![i].taken = Append(@, event),
                          ![i].disabled = {},
                          ![i].pc = IF result = None THEN "select" ELSE "idle",
                          ![i].returned = IF result = None THEN @ ELSE Append(@, result)]
    /\ UNCHANGED <<namingVars, sourceVars, callVars, netVars, senderVars,
                   services, clientVars>>

\* self.stream.next() resolved to None on an instance
StreamExhaustedOn ==
    /\ \E i \in DOMAIN instances :
         /\ instances[i].pc = "select"
         /\ "stream" \notin instances[i].disabled
         /\ Ended(subscriptions[instances[i].stream])
         /\ instances' = [instances EXCEPT ![i].disabled = @ \cup {"stream"}]
    /\ UNCHANGED <<namingVars, sourceVars, callVars, netVars, senderVars,
                   services, subscriptions, clientVars>>

\* Some(event) = self.sync_stream.next() on an instance
PollSyncOn ==
    /\ \E i \in DOMAIN instances, ok1 \in BOOLEAN, ok2 \in BOOLEAN :
         LET self == instances[i]
             items == Pending(subscriptions[self.sync_stream])
         IN  /\ self.pc = "select"
             /\ "sync_stream" \notin self.disabled
             /\ items # <<>>
             /\ LET event == Head(items)
                    issued == on_sync_event(self.naming, event, ok1, ok2)
                IN  /\ subscriptions' =
                          [subscriptions EXCEPT ![self.sync_stream].pos = @ + 1]
                    /\ instances' = [instances EXCEPT
                          ![i].sync_taken = Append(@, event),
                          ![i].disabled = {},
                          ![i].pc = "select"]
                    /\ commands' = commands \o issued
                    /\ reserved' = ApplyCommands(reserved, issued)
    /\ UNCHANGED <<namingVars, sourceVars, callVars, senderVars, services, clientVars>>

\* self.sync_stream.next() resolved to None on an instance
SyncExhaustedOn ==
    /\ \E i \in DOMAIN instances :
         /\ instances[i].pc = "select"
         /\ "sync_stream" \notin instances[i].disabled
         /\ Ended(subscriptions[instances[i].sync_stream])
         /\ instances' = [instances EXCEPT ![i].disabled = @ \cup {"sync_stream"}]
    /\ UNCHANGED <<namingVars, sourceVars, callVars, netVars, senderVars,
                   services, subscriptions, clientVars>>

\* else => return None on an instance
SelectElseOn ==
    /\ \E i \in DOMAIN instances :
         /\ instances[i].pc = "select"
         /\ instances[i].disabled = SelectBranches
         /\ instances' = [instances EXCEPT
               ![i].returned = Append(@, None), ![i].pc = "idle", ![i].disabled = {}]
    /\ UNCHANGED <<namingVars, sourceVars, callVars, netVars, senderVars,
                   services, subscriptions, clientVars>>

NextInstances ==
    \/ NetworkProduces
    \/ SyncProduces
    \/ ServiceCloses
    \/ EventStream
    \/ CallNextEventOn
    \/ PollStreamOn
    \/ StreamExhaustedOn
    \/ PollSyncOn
    \/ SyncExhaustedOn
    \/ SelectElseOn

SpecInstances == Init /\ [][NextInstances]_vars

-----------------------------------------------------------------------------
(* Vocabulary of the properties *)

\* the wire name w resolves to the logical protocol P
Resolves(w, P) ==
    \/ w = protocol_name(naming, P)
    \/ \E i \in DOMAIN fallback_protocol_names(naming, P) :
         fallback_protocol_names(naming, P)[i] = w

Resolvable(w) == \E P \in Protocol : Resolves(w, P)
ProtocolOf(w) == CHOOSE P \in Protocol : Resolves(w, P)

StreamDone == stream = <<>> /\ stream_closed
SyncDone == sync_stream = <<>> /\ sync_closed

\* the events among the values next_event returned
EventsOf(rets) == SelectSeq(rets, LAMBDA r : r # None)

\* the commands issued by the step, if it issued any
NewCommands == SubSeq(commands', Len(commands) + 1, Len(commands'))

\* the peers an add command carries, read from its addresses
AddressedPeers(cmd) == {a[Len(a)].peer_id : a \in cmd.peers}

-----------------------------------------------------------------------------
(* C1: next_event returns None only when both the substream source and the  *)
(* connectivity source are exhausted; while one source is exhausted and the *)
(* other has an item, the select! does not reach `else` and the arm of the  *)
(* live source can run.                                                     *)
C1_NoneOnlyWhenBothExhausted ==
    /\ NoneCount(returned) > 0 => StreamDone /\ SyncDone
    /\ pc = "select" /\ disabled = SelectBranches => StreamDone /\ SyncDone
    /\ pc = "select" /\ stream # <<>> => ENABLED PollStream
    /\ pc = "select" /\ sync_stream # <<>> => ENABLED PollSync

\* the substream source was found exhausted by the running select!, the
\* connectivity source has an item ready, an earlier one was handled, no None
C1_Witness ==
    /\ pc = "select"
    /\ "stream" \in disabled
    /\ sync_stream # <<>>
    /\ Len(sync_taken) = 1
    /\ returned = <<>>

-----------------------------------------------------------------------------
(* C2: a consumed PeerConnected(p) issues exactly two commands, both        *)
(* add_peers_to_reserved_set with the address of p, the first under the     *)
(* canonical Authentication name and the second under the canonical         *)
(* BlockSync name, whatever the outcome of the first.                       *)
C2_ConnectIssuesBothAdds ==
    [][\A p \in PeerId :
         sync_taken' = Append(sync_taken, PeerConnected(p)) =>
           /\ Len(commands') = Len(commands) + 2
           /\ SubSeq(commands', 1, Len(commands)) = commands
           /\ \A k \in 1..2 :
                /\ NewCommands[k].op = "add_peers_to_reserved_set"
                /\ AddressedPeers(NewCommands[k]) = {p}
           /\ NewCommands[1].protocol = protocol_name(naming, "Authentication")
           /\ NewCommands[2].protocol = protocol_name(naming, "BlockSync")
      ]_vars

\* the Authentication add failed and the BlockSync add follows it
C2_Witness ==
    \E i \in DOMAIN commands :
        /\ commands[i].op = "add_peers_to_reserved_set"
        /\ commands[i].protocol = protocol_name(naming, "Authentication")
        /\ ~commands[i].ok
        /\ i + 1 \in DOMAIN commands
        /\ commands[i + 1].protocol = protocol_name(naming, "BlockSync")
        /\ commands[i + 1].ok

-----------------------------------------------------------------------------
(* C3: a consumed PeerDisconnected(p) issues exactly two commands, both     *)
(* remove_peers_from_reserved_set naming exactly p, the first under the     *)
(* canonical Authentication name and the second under the canonical         *)
(* BlockSync name, whatever the outcome of the first.                       *)
C3_DisconnectIssuesBothRemoves ==
    [][\A p \in PeerId :
         sync_taken' = Append(sync_taken, PeerDisconnected(p)) =>
           /\ Len(commands') = Len(commands) + 2
           /\ SubSeq(commands', 1, Len(commands)) = commands
           /\ \A k \in 1..2 :
                /\ NewCommands[k].op = "remove_peers_from_reserved_set"
                /\ NewCommands[k].peers = <<p>>
           /\ NewCommands[1].protocol = protocol_name(naming, "Authentication")
           /\ NewCommands[2].protocol = protocol_name(naming, "BlockSync")
      ]_vars

\* the Authentication remove failed and the BlockSync remove follows it
C3_Witness ==
    \E i \in DOMAIN commands :
        /\ commands[i].op = "remove_peers_from_reserved_set"
        /\ commands[i].protocol = protocol_name(naming, "Authentication")
        /\ ~commands[i].ok
        /\ i + 1 \in DOMAIN commands
        /\ commands[i + 1].protocol = protocol_name(naming, "BlockSync")
        /\ commands[i + 1].ok

-----------------------------------------------------------------------------
(* The connectivity signals for p whose k-th command (1: Authentication,    *)
(* 2: BlockSync) the network service accepted                               *)
Signals(p) == {i \in DOMAIN sync_taken : sync_taken[i].remote = p}
Accepted(p, k) == {i \in Signals(p) : commands[2 * (i - 1) + k].ok}
Latest(S) == CHOOSE i \in S : \A j \in S : j <= i
ProtocolAt(k) == IF k = 1 THEN "Authentication" ELSE "BlockSync"

(* C4, as stated: after a connectivity signal for p has been processed, p   *)
(* is in the reserved set of both protocols if the latest signal for p was  *)
(* a connect and in neither if it was a disconnect, even when a command     *)
(* failed.                                                                  *)
C4_SynchronizedDespiteFailure ==
    \A p \in PeerId :
        Signals(p) # {} =>
            \A P \in Protocol :
                (p \in reserved[protocol_name(naming, P)])
                    <=> (sync_taken[Latest(Signals(p))].type = "PeerConnected")

(* C4, amended: each protocol's reserved set follows the latest signal for  *)
(* p whose command for that protocol succeeded (p is in the set iff that    *)
(* signal was a connect; p is in no set before any command succeeded); a    *)
(* failed command leaves the membership as it was, whatever the outcome of  *)
(* the command for the other protocol.                                      *)
C4_SynchronizedWhereAccepted ==
    /\ Len(commands) = 2 * Len(sync_taken)
    /\ \A p \in PeerId : \A k \in 1..2 :
         (p \in reserved[protocol_name(naming, ProtocolAt(k))])
            <=> /\ Accepted(p, k) # {}
                /\ sync_taken[Latest(Accepted(p, k))].type = "PeerConnected"

\* p1 connected and only the BlockSync command succeeded: the two sets differ
C4_Witness ==
    /\ sync_taken = <<PeerConnected("p1")>>
    /\ ~commands[1].ok
    /\ commands[2].ok
    /\ "p1" \notin reserved[protocol_name(naming, "Authentication")]
    /\ "p1" \in reserved[protocol_name(naming, "BlockSync")]

-----------------------------------------------------------------------------
(* C6: a consumed NotificationStreamOpened / NotificationStreamClosed       *)
(* (p, w) makes next_event return StreamOpened(p, P) / StreamClosed(p, P)   *)
(* when w resolves to P; when w does not resolve, nothing is returned and   *)
(* the call goes on polling.                                                *)
C6_OpenCloseResolvedOrSkipped ==
    [][\A p \in PeerId : \A w \in WireNames(naming) :
         /\ taken' = Append(taken, NotificationStreamOpened(p, w)) =>
              IF Resolvable(w)
              THEN /\ returned' = Append(returned, Some(StreamOpened(p, ProtocolOf(w))))
                   /\ pc' = "idle"
              ELSE /\ returned' = returned
                   /\ pc' = "select"
         /\ taken' = Append(taken, NotificationStreamClosed(p, w)) =>
              IF Resolvable(w)
              THEN /\ returned' = Append(returned, Some(StreamClosed(p, ProtocolOf(w))))
                   /\ pc' = "idle"
              ELSE /\ returned' = returned
                   /\ pc' = "select"
      ]_vars

\* an unresolved open was skipped and the same call returned the next item,
\* a close under the legacy name
C6_Witness ==
    /\ taken = <<NotificationStreamOpened("p1", FOREIGN_PROTOCOL_NAME),
                 NotificationStreamClosed("p2", LEGACY_AUTHENTICATION_PROTOCOL_NAME)>>
    /\ returned = <<Some(StreamClosed("p2", "Authentication"))>>
    /\ pc = "idle"

-----------------------------------------------------------------------------
(* What an item of either source is to produce *)

Kept(messages) == SelectSeq(messages, LAMBDA e : Resolvable(e[1]))
ExpectedMessages(messages) ==
    [i \in 1..Len(Kept(messages)) |->
        <<ProtocolOf(Kept(messages)[i][1]), Kept(messages)[i][2]>>]

ExpectedEvent(item) ==
    CASE item.type = "NotificationStreamOpened" ->
            IF Resolvable(item.protocol)
            THEN <<StreamOpened(item.remote, ProtocolOf(item.protocol))>> ELSE <<>>
      [] item.type = "NotificationStreamClosed" ->
            IF Resolvable(item.protocol)
            THEN <<StreamClosed(item.remote, ProtocolOf(item.protocol))>> ELSE <<>>
      [] item.type = "NotificationsReceived" ->
            <<Messages(item.remote, ExpectedMessages(item.messages))>>
      [] OTHER -> <<>>

RECURSIVE ExpectedEvents(_)
ExpectedEvents(items) ==
    IF items = <<>> THEN <<>>
    ELSE ExpectedEvent(Head(items)) \o ExpectedEvents(Tail(items))

\* a command without its outcome
Issued(cmd) == [op |-> cmd.op, protocol |-> cmd.protocol, peers |-> PeersOf(cmd)]

ExpectedCommands(item) ==
    LET op == IF item.type = "PeerConnected"
              THEN "add_peers_to_reserved_set" ELSE "remove_peers_from_reserved_set"
    IN  <<[op |-> op, protocol |-> protocol_name(naming, "Authentication"),
           peers |-> {item.remote}],
          [op |-> op, protocol |-> protocol_name(naming, "BlockSync"),
           peers |-> {item.remote}]>>

RECURSIVE ExpectedIssued(_)
ExpectedIssued(items) ==
    IF items = <<>> THEN <<>>
    ELSE ExpectedCommands(Head(items)) \o ExpectedIssued(Tail(items))

(* C9: the items of each source are consumed in the order the source        *)
(* produced them; the events next_event returned are, in order, what the    *)
(* consumed substream items produce, and the commands issued are, in order, *)
(* those of the consumed connectivity items.                                *)
C9_OrderWithinEachSource ==
    /\ emitted = taken \o stream
    /\ sync_emitted = sync_taken \o sync_stream
    /\ [i \in 1..Len(EventsOf(returned)) |-> EventsOf(returned)[i][1]]
          = ExpectedEvents(taken)
    /\ [i \in DOMAIN commands |-> Issued(commands[i])] = ExpectedIssued(sync_taken)

\* two events were returned for two different items, and a connectivity item
\* was handled although the substream source had produced its items before it
C9_Witness ==
    /\ Len(taken) = 2
    /\ taken[1] # taken[2]
    /\ Len(EventsOf(returned)) = 2
    /\ returned[1] # returned[2]
    /\ Len(sync_taken) = 1
    /\ Len(commands) = 2

-----------------------------------------------------------------------------
(* C5: a consumed NotificationsReceived(p, batch) makes next_event return   *)
(* one Messages event for p that carries exactly the entries of the batch   *)
(* whose name resolves, each with its resolved protocol and its payload, in *)
(* the order of the batch.                                                  *)
C5_MessagesFilteredInOrder ==
    [][(/\ Len(taken') = Len(taken) + 1
        /\ taken'[Len(taken')].type = "NotificationsReceived") =>
          LET item == taken'[Len(taken')]
          IN  /\ returned' = Append(returned,
                    Some(Messages(item.remote, ExpectedMessages(item.messages))))
              /\ pc' = "idle"
      ]_vars

\* the batch of the example: an unresolved entry between two resolved ones
C5_Witness ==
    /\ taken = <<NotificationsReceived("p1",
                    << <<protocol_name(naming, "Authentication"), "b1">>,
                       <<FOREIGN_PROTOCOL_NAME, "b2">>,
                       <<protocol_name(naming, "BlockSync"), "b2">> >>)>>
    /\ returned = <<Some(Messages("p1",
                    << <<"Authentication", "b1">>, <<"BlockSync", "b2">> >>))>>

-----------------------------------------------------------------------------
(* C7: a send call waits for readiness once; if the wait fails it returns   *)
(* LostConnectionToPeer of the handle's peer without pushing; otherwise it  *)
(* pushes once and returns LostConnectionToPeerReady of that peer if the    *)
(* push fails and success if it does not; the two errors differ.            *)
Count(ops, op) == Cardinality({i \in DOMAIN ops : ops[i] = op})

C7_SendErrors ==
    send_ret # None =>
        LET call == send_ret[1]
            peer == call.handle.peer_id
        IN  /\ Count(call.ops, "ready") = 1
            /\ Count(call.ops, "send") = (IF call.ready_ok THEN 1 ELSE 0)
            /\ Len(call.ops) = Count(call.ops, "ready") + Count(call.ops, "send")
            /\ ~call.ready_ok =>
                  call.result = Err(LostConnectionToPeer(peer))
            /\ call.ready_ok /\ ~call.push_ok =>
                  call.result = Err(LostConnectionToPeerReady(peer))
            /\ call.ready_ok /\ call.push_ok => call.result.tag = "Ok"
            /\ LostConnectionToPeer(peer) # LostConnectionToPeerReady(peer)

\* the substream of the handle was closed while send waited: the wait failed
C7_Witness ==
    /\ send_ret # None
    /\ ~send_ret[1].ready_ok
    /\ send_ret[1].handle.peer_id = "p2"
    /\ send_ret[1].result = Err(LostConnectionToPeer("p2"))
    /\ send_ret[1].ops = <<"ready">>

-----------------------------------------------------------------------------
(* C8: sender(peer, protocol) returns CannotCreateSender(peer, protocol)    *)
(* when the service has no open substream of the peer under the canonical   *)
(* name of the protocol and a handle bound to the peer otherwise; the call  *)
(* is one step that changes neither the sources, the pending next_event     *)
(* call, the commands, the reserved sets nor the substreams.                *)
C8_SenderResult ==
    [][sender_ret' # sender_ret =>
         LET call == sender_ret'[1]
         IN  /\ IF <<call.peer_id, protocol_name(naming, call.protocol)>> \in open_substreams
                THEN /\ call.result.tag = "Ok"
                     /\ call.result.value.peer_id = call.peer_id
                     /\ call.result.value.notification_sender.peer_id = call.peer_id
                ELSE call.result = Err(CannotCreateSender(call.peer_id, call.protocol))
             /\ UNCHANGED <<sourceVars, callVars, netVars, open_substreams>>
      ]_vars

\* p2 has a substream open for Authentication only, and a sender for
\* BlockSync was refused
C8_Witness ==
    /\ {s \in open_substreams : s[1] = "p2"}
          = {<<"p2", protocol_name(naming, "Authentication")>>}
    /\ sender_ret = Some([peer_id |-> "p2", protocol |-> "BlockSync",
                          result |-> Err(CannotCreateSender("p2", "BlockSync"))])
    /\ reserved[protocol_name(naming, "BlockSync")] = {"p1"}
    /\ stream # <<>>

-----------------------------------------------------------------------------
(* C10: for every chain prefix, to_protocol maps the canonical name of a    *)
(* protocol, and each of its fallback names, to that protocol.              *)
C10_NamesRoundTrip ==
    lookup # None =>
        \A P \in Protocol :
            /\ lookup[1].name = protocol_name(naming, P) => lookup[1].result = Some(P)
            /\ \A i \in DOMAIN fallback_protocol_names(naming, P) :
                 lookup[1].name = fallback_protocol_names(naming, P)[i]
                    => lookup[1].result = Some(P)

\* the legacy name was looked up in the registry of a prefix that itself
\* ends in a protocol suffix, and gave Authentication
C10_Witness ==
    /\ naming.authentication_name = "chain_/sync/0/auth/0"
    /\ lookup = Some([name |-> LEGACY_AUTHENTICATION_PROTOCOL_NAME,
                      result |-> Some("Authentication")])

-----------------------------------------------------------------------------
\* the names a registry was built from: the two canonical names and the
\* fallback names
RegisteredNames(n) ==
    {protocol_name(n, P) : P \in Protocol}
        \cup UNION {{fallback_protocol_names(n, P)[i] :
                        i \in DOMAIN fallback_protocol_names(n, P)} : P \in Protocol}

(* C11: for every chain prefix each wire name belongs to at most one         *)
(* protocol; the canonical Authentication name, the canonical BlockSync     *)
(* name and the legacy Authentication name are three different names and    *)
(* the registry holds one entry for each, so no insert overwrote another;   *)
(* to_protocol gives None for every name that is not one of the three.      *)
C11_NamesDistinctOthersNone ==
    /\ \A w \in LookupNames : Cardinality({P \in Protocol : Resolves(w, P)}) <= 1
    /\ Cardinality({naming.authentication_name, naming.block_sync_name,
                    LEGACY_AUTHENTICATION_PROTOCOL_NAME}) = 3
    /\ RegisteredNames(naming) = {naming.authentication_name, naming.block_sync_name,
                                  LEGACY_AUTHENTICATION_PROTOCOL_NAME}
    /\ DOMAIN naming.protocols_by_name = RegisteredNames(naming)
    /\ \A w \in RegisteredNames(naming) : Resolves(w, naming.protocols_by_name[w])
    /\ lookup # None =>
          /\ Len(lookup[1].result) <= 1
          /\ lookup[1].name \notin RegisteredNames(naming) => lookup[1].result = None

\* the chain prefix is itself the legacy name; the canonical Authentication
\* name of the empty prefix was looked up and is not known to this registry
C11_Witness ==
    /\ naming.authentication_name = "/aleph/1/auth/0"
    /\ naming.block_sync_name = "/aleph/1/sync/0"
    /\ lookup = Some([name |-> AUTHENTICATION_PROTOCOL_NAME, result |-> None])

-----------------------------------------------------------------------------
(* C12: neither source has priority in the merge.  While the consumer keeps *)
(* calling next_event, an item ready on the connectivity source is          *)
(* eventually consumed, even if the substream source has an item ready all  *)
(* the time, and an item ready on the substream source is eventually        *)
(* consumed, even if the connectivity source has an item ready all the time.*)
C12_NoPriority ==
    /\ <>[](sync_stream # <<>>) => []<><<PollSync>>_vars
    /\ <>[](stream # <<>>) => []<><<PollStream>>_vars

\* the connectivity source's item was consumed, and its commands issued,
\* past two items the substream source holds ready
C12_Witness ==
    /\ Len(stream) = MaxReady
    /\ taken = <<>>
    /\ sync_taken # <<>>
    /\ Len(commands) = 2

-----------------------------------------------------------------------------
\* the item a step consumed from the substream source, if it consumed one
TookFromStream == Len(taken') = Len(taken) + 1
TakenItem == taken'[Len(taken')]

\* the kind of substream item each kind of event comes from
CauseOf(event) ==
    CASE event.type = "StreamOpened" -> "NotificationStreamOpened"
      [] event.type = "StreamClosed" -> "NotificationStreamClosed"
      [] event.type = "Messages" -> "NotificationsReceived"

(* C14: connectivity signals and Dht items never produce an event.  A step  *)
(* that consumes a signal or a Dht item returns nothing and leaves the call *)
(* polling; a step that returns an event consumed an open, a close or a     *)
(* batch of messages of the substream source, of the event's kind and from  *)
(* the event's peer, consumed no signal and issued no command.              *)
C14_OnlySubstreamItemsYieldEvents ==
    [][/\ sync_taken' # sync_taken =>
             /\ returned' = returned
             /\ pc' = "select"
             /\ taken' = taken
       /\ (TookFromStream /\ TakenItem.type = "Dht") =>
             /\ returned' = returned
             /\ pc' = "select"
       /\ (returned' # returned /\ returned'[Len(returned')] # None) =>
             /\ returned' = Append(returned, returned'[Len(returned')])
             /\ TookFromStream
             /\ TakenItem.type = CauseOf(returned'[Len(returned')][1])
             /\ TakenItem.remote = returned'[Len(returned')][1].remote
             /\ sync_taken' = sync_taken
             /\ commands' = commands
      ]_vars

\* one call has handled a Dht item and a signal and is still polling
C14_Witness ==
    /\ taken = <<Dht>>
    /\ Len(sync_taken) = 1
    /\ Len(commands) = 2
    /\ returned = <<>>
    /\ pc = "select"

-----------------------------------------------------------------------------
(* C15: the exhausted state is terminal.  Once next_event has returned None *)
(* on an instance, the only value a later call returns is None, no item is  *)
(* consumed, no event is returned and no command is issued, and a later     *)
(* call can be made and does return.                                        *)
C15_ExhaustedIsTerminal ==
    /\ [](NoneCount(returned) > 0 /\ pc = "select" =>
            /\ ~ENABLED PollStream
            /\ ~ENABLED PollSync
            /\ ENABLED StreamExhausted \/ ENABLED SyncExhausted \/ ENABLED SelectElse)
    /\ [][NoneCount(returned) > 0 =>
            /\ returned' \in {returned, Append(returned, None)}
            /\ UNCHANGED <<taken, sync_taken, commands, reserved, sourceVars>>
         ]_vars

\* events were returned and commands issued, then None, then None again
C15_Witness ==
    /\ Len(returned) = 3
    /\ returned[1] # None
    /\ returned[2] = None
    /\ returned[3] = None
    /\ Len(commands) = 2
    /\ pc = "idle"

-----------------------------------------------------------------------------
(* C16: a consumed NotificationsReceived(p, batch) always ends the call     *)
(* with exactly one Messages event for p; when the batch is empty or none   *)
(* of its names resolves, the event is Messages(p, <<>>): it is returned,   *)
(* not suppressed, and the call does not go on polling.                     *)
C16_EmptyMessagesEmitted ==
    [][(TookFromStream /\ TakenItem.type = "NotificationsReceived") =>
          /\ Len(returned') = Len(returned) + 1
          /\ returned'[Len(returned')] # None
          /\ returned'[Len(returned')][1].type = "Messages"
          /\ returned'[Len(returned')][1].remote = TakenItem.remote
          /\ pc' = "idle"
          /\ (\A i \in DOMAIN TakenItem.messages : ~Resolvable(TakenItem.messages[i][1]))
                => returned'[Len(returned')] = Some(Messages(TakenItem.remote, <<>>))
      ]_vars

\* a batch of two entries under a foreign name gave an empty Messages event
C16_Witness ==
    /\ taken = <<NotificationsReceived("p2",
                    << <<FOREIGN_PROTOCOL_NAME, "b1">>, <<FOREIGN_PROTOCOL_NAME, "b2">> >>)>>
    /\ returned = <<Some(Messages("p2", <<>>))>>
    /\ pc = "idle"

-----------------------------------------------------------------------------
(* C18: sender(peer, protocol) asks for the capability under the canonical  *)
(* name of the protocol and under no other name: a handle it returns is for *)
(* the canonical name, never for a fallback name, and its answer does not   *)
(* depend on the substreams open under other names.  For a peer whose       *)
(* Authentication substream is open under the legacy name only, the opening *)
(* of which next_event reports as StreamOpened(peer, Authentication),       *)
(* sender(peer, Authentication) returns CannotCreateSender.                 *)
C18_SenderCanonicalNameOnly ==
    [][sender_ret' # sender_ret =>
         LET call == sender_ret'[1]
             canonical == protocol_name(naming, call.protocol)
             fallbacks == fallback_protocol_names(naming, call.protocol)
         IN  /\ call.result.tag = "Ok" =>
                   /\ call.result.value.notification_sender.protocol = canonical
                   /\ \A i \in DOMAIN fallbacks :
                         call.result.value.notification_sender.protocol # fallbacks[i]
             /\ call.result =
                   sender(naming, {s \in open_substreams : s[2] = canonical},
                          call.peer_id, call.protocol)
             /\ \A i \in DOMAIN fallbacks :
                   (/\ <<call.peer_id, fallbacks[i]>> \in open_substreams
                    /\ <<call.peer_id, canonical>> \notin open_substreams) =>
                      /\ notification_stream_opened(naming, call.peer_id, fallbacks[i])
                            = Some(StreamOpened(call.peer_id, call.protocol))
                      /\ call.result = Err(CannotCreateSender(call.peer_id, call.protocol))
      ]_vars

\* p1 has its Authentication substream open under the legacy name only and
\* was refused a sender for Authentication
C18_Witness ==
    /\ {s \in open_substreams : s[1] = "p1"}
          = {<<"p1", LEGACY_AUTHENTICATION_PROTOCOL_NAME>>}
    /\ sender_ret = Some([peer_id |-> "p1", protocol |-> "Authentication",
                          result |-> Err(CannotCreateSender("p1", "Authentication"))])

-----------------------------------------------------------------------------
(* C19, as stated: first_block_of_session(session) asks for the hash of the *)
(* block whose number is the exact product of the session period and the    *)
(* session, for every u32 period and session; it returns Ok(None) when that *)
(* block is unknown; when the period query fails it returns the error and   *)
(* asks for no block hash.                                                  *)
C19_QueriesExactProduct ==
    /\ session_call.pc # "panicked"
    /\ session_call.pc \in {"hash", "done"} /\ session_call.period # None =>
          /\ Len(session_call.block_hash_queries) = 1
          /\ Widen(session_call.block_hash_queries[1])
                = Product(session_call.period[1], session_call.session[1])
    /\ session_call.pc = "done" /\ session_call.period = None =>
          /\ session_call.result = Some(Err(RpcError))
          /\ session_call.block_hash_queries = <<>>
    /\ session_call.pc = "hash" => ENABLED GetBlockHashReturns

\* period 900, session 4772186: the product is 2^32 + 104 and, without
\* overflow checks, the hash of block 104 was asked for and returned
C19_Witness ==
    /\ session_call.pc = "done"
    /\ session_call.period = Some(U32(0, 900))
    /\ session_call.session = Some(U32(72, 53594))
    /\ session_call.block_hash_queries = <<U32(0, 104)>>
    /\ session_call.result = Some(Ok(Some("h1")))

-----------------------------------------------------------------------------
(* C17: an item is handled in one piece.  The step that consumes a signal   *)
(* issues both its commands and consumes nothing else, the step that        *)
(* consumes a substream item issues no command and consumes no signal, and  *)
(* dropping a pending call changes neither the sources nor the histories:   *)
(* in every state, also after a call was dropped, each consumed signal has  *)
(* both its commands issued and each consumed substream item that yields an *)
(* event has had it returned, and the items not consumed are still in their *)
(* source.                                                                  *)
C17_ItemsHandledAtomically ==
    /\ [](/\ Len(commands) = 2 * Len(sync_taken)
          /\ [i \in DOMAIN commands |-> Issued(commands[i])] = ExpectedIssued(sync_taken)
          /\ [i \in 1..Len(EventsOf(returned)) |-> EventsOf(returned)[i][1]]
                = ExpectedEvents(taken)
          /\ emitted = taken \o stream
          /\ sync_emitted = sync_taken \o sync_stream)
    /\ [][
          /\ sync_taken' # sync_taken =>
                /\ Len(sync_taken') = Len(sync_taken) + 1
                /\ Len(commands') = Len(commands) + 2
                /\ UNCHANGED <<taken, stream, returned>>
          /\ taken' # taken =>
                /\ TookFromStream
                /\ UNCHANGED <<sync_taken, sync_stream, commands, reserved>>
          /\ (pc = "select" /\ pc' = "idle" /\ returned' = returned) =>
                UNCHANGED <<sourceVars, taken, sync_taken, commands, reserved>>
         ]_vars

\* a call handled a signal, went on polling and was dropped while an open
\* was ready: both commands are issued and the open is still in the source
C17_Witness ==
    /\ pc = "idle"
    /\ returned = <<>>
    /\ taken = <<>>
    /\ Len(sync_taken) = 1
    /\ Len(commands) = 2
    /\ stream # <<>>
    /\ Head(stream).type = "NotificationStreamOpened"

-----------------------------------------------------------------------------
\* what a service produced after the instance was created
ProducedSince(self, source) ==
    SubSeq(services[source].emitted, self.since[source] + 1, Len(services[source].emitted))

\* the subscriptions of an instance
SubscriptionsOf(self) == {self.stream, self.sync_stream}

(* C13: every event_stream call gives an instance with subscriptions of its *)
(* own.  No subscription belongs to two instances; what an instance has     *)
(* consumed and still holds is, for each source, exactly what the source    *)
(* produced since the instance was created, whatever the other instances    *)
(* consumed, and the events it returned are those of the items it consumed; *)
(* a step of one instance (consuming, returning an event or None) leaves    *)
(* every other instance, and the items its subscriptions hold, unchanged.   *)
C13_InstancesIndependent ==
    /\ [](\A i \in DOMAIN instances :
            LET self == instances[i]
            IN  /\ \A j \in DOMAIN instances \ {i} :
                      SubscriptionsOf(self) \cap SubscriptionsOf(instances[j]) = {}
                /\ self.taken \o Pending(subscriptions[self.stream])
                      = ProducedSince(self, "network")
                /\ self.sync_taken \o Pending(subscriptions[self.sync_stream])
                      = ProducedSince(self, "sync")
                /\ [k \in 1..Len(EventsOf(self.returned)) |-> EventsOf(self.returned)[k][1]]
                      = ExpectedEvents(self.taken))
    /\ [][\A i \in DOMAIN instances : \A j \in DOMAIN instances \ {i} :
            instances'[i] # instances[i] =>
                /\ instances'[j] = instances[j]
                /\ Pending(subscriptions[instances[j].stream])'
                      = Pending(subscriptions[instances[j].stream])
                /\ Pending(subscriptions[instances[j].sync_stream])'
                      = Pending(subscriptions[instances[j].sync_stream])
         ]_vars

\* the first instance consumed an open and a signal and reached the end of
\* its sources; the second, created before them, has consumed nothing and
\* still holds both items
C13_Witness ==
    /\ Len(instances) = 2
    /\ Len(instances[1].taken) = 1
    /\ Len(instances[1].sync_taken) = 1
    /\ Len(instances[1].returned) = 2
    /\ instances[1].returned[1] # None
    /\ instances[1].returned[2] = None
    /\ instances[2].taken = <<>>
    /\ instances[2].sync_taken = <<>>
    /\ Pending(subscriptions[instances[2].stream]) = instances[1].taken
    /\ Pending(subscriptions[instances[2].sync_stream]) = instances[1].sync_taken

====
